---- MODULE Spec2Model ----
(***************************************************************************)
(* Model of the crawl-and-extract pipeline of scrapeforllm:                *)
(* CompleteTextWebScraper (src/complete_web_scraper.py) - discover_all_    *)
(* pages, scrape_entire_website, scrape_multiple_urls and the exports;     *)
(* WebScraperForLLM (src/web_scraper.py) - discover_urls,                  *)
(* scrape_multiple_urls, save_to_json, save_to_csv and                     *)
(* create_llm_training_format.                                             *)
(*                                                                         *)
(* Strings are sequences of tokens; every token stands for a piece of text *)
(* (a scheme with its colon, "//", a host, "/", a name, an extension with  *)
(* its dot, "#", "?").  The string operations of the code (split, lower,   *)
(* endswith, in, startswith, urljoin, urlparse) are defined on these       *)
(* sequences.                                                              *)
(***************************************************************************)
EXTENDS Integers, Sequences, FiniteSets, Bags, TLC

(***************************************************************************)
(* Bounds of the exploration.                                              *)
(***************************************************************************)
\* largest max_pages argument explored (the smallest is -1)
MaxPagesArg == 3
\* largest max_depth argument explored (the smallest is -1)
MaxDepthArg == 2
\* most anchors on the pages fetched during one discovery, all pages together
MaxAnchors == 4
\* longest seed list handed to scrape_multiple_urls
MaxSeeds == 2
\* most top-level operations called on one scraper instance
MaxOps == 2

\* most FAQ entries extracted from one page
MaxFaq == 2
\* most records in scraped_data when an export is called
MaxRecords == 2
\* most links extracted from one page
MaxPageLinks == 2
\* most text-bearing elements of a document
MaxElems == 2
\* latest reading of the clock
MaxClock == 2

(***************************************************************************)
(* Text: str operations on token sequences.                                *)
(***************************************************************************)
\* position of the first token of s that is in set T, or Len(s)+1
FirstIn(s, T) ==
    IF \E i \in 1..Len(s) : s[i] \in T
    THEN CHOOSE i \in 1..Len(s) : s[i] \in T /\ \A j \in 1..(i-1) : s[j] \notin T
    ELSE Len(s) + 1

\* position of the last token of s that is in set T, or 0
LastIn(s, T) ==
    IF \E i \in 1..Len(s) : s[i] \in T
    THEN CHOOSE i \in 1..Len(s) : s[i] \in T /\ \A j \in (i+1)..Len(s) : s[j] \notin T
    ELSE 0

\* str.lower() of one token
LowerTok(t) ==
    CASE t = ".PDF" -> ".pdf"
      [] t = "JavaScript:" -> "javascript:"
      [] OTHER -> t

\* str.lower()
Lower(s) == [i \in 1..Len(s) |-> LowerTok(s[i])]

\* s.endswith(suffix)
EndsWith(s, suffix) ==
    /\ Len(suffix) <= Len(s)
    /\ SubSeq(s, Len(s) - Len(suffix) + 1, Len(s)) = suffix

\* s.startswith(prefix)
StartsWith(s, prefix) ==
    /\ Len(prefix) <= Len(s)
    /\ SubSeq(s, 1, Len(prefix)) = prefix

\* sub in s
Contains(s, sub) ==
    \E i \in 1..(Len(s) - Len(sub) + 1) : SubSeq(s, i, i + Len(sub) - 1) = sub

\* s.split('#')[0]
SplitHashFirst(s) == SubSeq(s, 1, FirstIn(s, {"#"}) - 1)

(***************************************************************************)
(* urllib.parse on token sequences.                                        *)
(***************************************************************************)
SchemeTokens == {"https:", "data:", "javascript:", "JavaScript:", "mailto:", "tel:"}

HasScheme(s) == Len(s) >= 1 /\ s[1] \in SchemeTokens

\* the string after its scheme
AfterScheme(s) == IF HasScheme(s) THEN Tail(s) ELSE s

\* urlparse(s).netloc: the text between a leading "//" (after the scheme)
\* and the next "/", "?" or "#"
Netloc(s) ==
    LET r == AfterScheme(s) IN
    IF Len(r) >= 1 /\ r[1] = "//"
    THEN SubSeq(Tail(r), 1, FirstIn(Tail(r), {"/", "?", "#"}) - 1)
    ELSE << >>

\* scheme + "//" + netloc of an absolute URL
Origin(s) == SubSeq(s, 1, 2 + Len(Netloc(s)))

\* the URL up to and including the last "/" of its path
DirOf(s) ==
    LET noq == SubSeq(s, 1, FirstIn(s, {"?", "#"}) - 1)
        o   == Len(Origin(s))
        k   == LastIn(noq, {"/"})
    IN IF k > o THEN SubSeq(s, 1, k) ELSE Origin(s) \o <<"/">>

\* urljoin(base, href) for an absolute http(s) base and a non-empty href
UrlJoin(base, href) ==
    IF href = << >> THEN base
    ELSE IF HasScheme(href) THEN href
    ELSE IF href[1] = "//" THEN <<base[1]>> \o href
    ELSE IF href[1] = "/" THEN Origin(base) \o href
    ELSE IF href[1] = "?" THEN SubSeq(base, 1, FirstIn(base, {"?", "#"}) - 1) \o href
    ELSE IF href[1] = "#" THEN SplitHashFirst(base) \o href
    ELSE DirOf(base) \o href

(***************************************************************************)
(* The explored inputs.                                                    *)
(***************************************************************************)
HomeUrl == <<"https:", "//", "a.com", "/">>

\* base_url values handed to the constructor
BaseUrls == {HomeUrl}

\* start_url arguments: the homepage, a page of it named with a fragment,
\* and a page of another host
StartUrls ==
    { HomeUrl,
      <<"https:", "//", "a.com", "/", "p", "#", "f">>,
      <<"https:", "//", "b.com", "/">> }

\* href attribute values an anchor of a fetched page may carry
Hrefs ==
    { <<"/", "p">>,
      <<"/", "p", "#", "f">>,
      <<"/", "d", ".pdf">>,
      <<"/", "d", ".PDF">>,
      <<"/", "d", ".pdf", "#", "f">>,
      <<"admin", "/", "x">>,
      <<"https:", "//", "b.com", "/">>,
      <<"#", "f">>,
      <<"mailto:", "x">>,
      <<"JavaScript:", "x">>,
      << >> }

SeqsUpTo(S, n) == UNION { [1..k -> S] : k \in 0..n }

\* urls arguments of scrape_multiple_urls
SeedUrls == { HomeUrl, <<"https:", "//", "a.com", "/", "p">> }

SeedLists == SeqsUpTo(SeedUrls, MaxSeeds)

MaxPagesArgs == (-1)..MaxPagesArg

MaxDepthArgs == (-1)..MaxDepthArg

\* session.get answers only for an http(s) URL with a host; any other URL
\* raises inside the try block
CanRespond(url) == Len(url) >= 1 /\ url[1] = "https:" /\ Netloc(url) # << >>

(***************************************************************************)
(* discover_all_pages: the expressions of its loop.                        *)
(***************************************************************************)
\* faulty variant of the loop test: <= for <
WhileCondInclusive(tv, disc, mp) == tv # << >> /\ Cardinality(disc) <= mp

\* while to_visit and len(discovered_urls) < max_pages
WhileCond(tv, disc, mp) == tv # << >> /\ Cardinality(disc) < mp

\* faulty variant of the cleaning: the fragment is kept
CleanUrlWithFragment(url) == url

\* clean_url = url.split('#')[0]
CleanUrl(url) == SplitHashFirst(url)

\* faulty variant of the skip test: the depth of the entry is not looked at
SkipEntryNoDepth(url, depth, vis, md) == url \in vis \/ CleanUrl(url) \in vis

\* faulty variant of the `continue` tests: only the URL as popped is looked
\* up in visited
SkipEntryRawUrlOnly(url, depth, vis, md) == url \in vis \/ depth > md

\* the two `continue` tests of one popped entry
SkipEntry(url, depth, vis, md) ==
    \/ url \in vis
    \/ depth > md
    \/ CleanUrl(url) \in vis

\* faulty variant of the test of line 448: the depth is not looked at
ShouldFetchAnyDepth(depth, md, disc, mp) == Cardinality(disc) < mp

\* faulty variant of the test of line 448: the discovered count is not
\* looked at
ShouldFetchIgnoringCap(depth, md, disc, mp) == depth < md

\* if depth < max_depth and len(discovered_urls) < max_pages
ShouldFetch(depth, md, disc, mp) == depth < md /\ Cardinality(disc) < mp

SkippedPrefixes == { <<"#">>, <<"javascript:">>, <<"mailto:">>, <<"tel:">> }

\* if not href or href.startswith(('#', 'javascript:', 'mailto:', 'tel:'))
SkipHref(href) == href = << >> \/ \E p \in SkippedPrefixes : StartsWith(href, p)

\* if parsed_url.netloc == base_domain or parsed_url.netloc == ''
IsInternal(full_url, base_domain) ==
    Netloc(full_url) = base_domain \/ Netloc(full_url) = << >>

excluded_extensions ==
    { <<".pdf">>, <<".jpg">>, <<".jpeg">>, <<".png">>, <<".gif">>, <<".zip">>,
      <<".doc">>, <<".docx">>, <<".xls">>, <<".xlsx">> }

excluded_paths ==
    { <<"/", "admin", "/">>, <<"/", "wp-admin", "/">>, <<"/", "login", "/">>,
      <<"/", "register", "/">>, <<"/", "api", "/">> }

EndsWithExcludedExtension(s) == \E ext \in excluded_extensions : EndsWith(Lower(s), ext)

ContainsExcludedPath(s) == \E path \in excluded_paths : Contains(Lower(s), path)

\* the test guarding to_visit.append
NotExcluded(full_url) ==
    ~EndsWithExcludedExtension(full_url) /\ ~ContainsExcludedPath(full_url)

\* one pass of the body of `for link in soup.find_all('a', href=True)`:
\* the entries it appends to to_visit (none or one)
LinkEntries(clean_url, depth, href, base_domain) ==
    LET full_url == UrlJoin(clean_url, href) IN
    IF /\ ~SkipHref(href)
       /\ IsInternal(full_url, base_domain)
       /\ NotExcluded(full_url)
    THEN << [url |-> full_url, depth |-> depth + 1] >>
    ELSE << >>

\* faulty variant of the returned list: elements may repeat
ListWithRepeats(S) == [1..Cardinality(S) -> S]

\* list(discovered_urls): a list of the set's elements, each once, in the
\* set's iteration order (the order of str hashes, which varies per process)
ListOfSet(S) ==
    { f \in [1..Cardinality(S) -> S] : \A a, b \in 1..Cardinality(S) : f[a] = f[b] => a = b }

(***************************************************************************)
(* State.                                                                  *)
(***************************************************************************)
VARIABLES
    base_url,         \* self.base_url
    cls,              \* the class of the instance: "complete" or "llm"
    files,            \* the file each export writes, by kind of export
    scraped_data,     \* self.scraped_data: the records, each [url |-> ...]
    pc,               \* position of the running operation, "idle" between calls
    op,               \* the public method running: none, entire, multiple,
                      \* discover_urls, l_multiple (the two of WebScraperForLLM)
    nops,             \* operations completed on this instance
    start_url,        \* arguments of discover_all_pages / scrape_entire_website
    max_pages,
    max_depth,
    to_visit,         \* the frontier: sequence of [url, depth]
    visited,
    discovered_urls,
    cur,              \* clean_url and depth of the entry being processed
    urls,             \* the worklist: final_urls / all_urls / the urls argument
    i,                \* enumerate index of the scrape loop
    nlinks,           \* anchors looked at so far in this discovery
    created,          \* history: bag of the frontier entries created in this crawl
    disc_order,       \* history: the clean URLs in the order they were discovered,
                      \* each with the depth it was popped at
    fetch_log,        \* history: URLs of the discovery requests of this crawl
    attempts,         \* history: outcome of scrape_page for urls[1..], in order
    op_base,          \* history: len(scraped_data) when the operation was called
    last_net,         \* history: what this operation did last on the network,
                      \* "request", "sleep", or "none" before its first request
    followed,         \* history: the href values whose link entered the frontier
    failed,           \* history: URLs whose discovery request did not succeed
    scrape_log,       \* history: URLs passed to scrape_page by this operation
    popped,           \* history: bag of the entries popped from the frontier
    linked,           \* history: the links of the pages this crawl has fetched
                      \* that passed the filters: from a page to a clean URL
    extracted         \* history: the scrape_page calls made from outside the
                      \* scrape loops that returned a record: the URL, the
                      \* document received and the record returned

vars == << base_url, cls, files, scraped_data, pc, op, nops, start_url, max_pages, max_depth,
           to_visit, visited, discovered_urls, cur, urls, i, nlinks,
           created, disc_order, fetch_log, attempts, op_base,
           last_net, followed, failed, scrape_log, popped, linked, extracted >>

crawlVars == << to_visit, visited, discovered_urls, cur, nlinks, created, disc_order,
               fetch_log >>

NoEntry == [url |-> << >>, depth |-> 0]

base_domain == Netloc(base_url)

\* a file that was not written
NoFile == [written |-> FALSE, lines |-> << >>]

FileKinds == {"json", "csv", "jsonl", "txt"}

\* no operation is running and none has run
InitIdle ==
    /\ base_url \in BaseUrls
    /\ pc = "idle"
    /\ op = "none"
    /\ nops = 0
    /\ start_url = << >>
    /\ max_pages = 0
    /\ max_depth = 0
    /\ to_visit = << >>
    /\ visited = {}
    /\ discovered_urls = {}
    /\ cur = NoEntry
    /\ urls = << >>
    /\ i = 0
    /\ nlinks = 0
    /\ created = EmptyBag
    /\ disc_order = << >>
    /\ fetch_log = << >>
    /\ attempts = << >>
    /\ op_base = 0
    /\ last_net = "none"
    /\ followed = {}
    /\ failed = {}
    /\ scrape_log = << >>
    /\ popped = EmptyBag
    /\ linked = {}
    /\ extracted = << >>

\* __init__ of either class; no file has been written
InitInstance(classes) ==
    /\ cls \in classes
    /\ files = [k \in FileKinds |-> NoFile]
    /\ InitIdle

\* CompleteTextWebScraper.__init__: self.scraped_data = []
Init == InitInstance({"complete"}) /\ scraped_data = << >>

(***************************************************************************)
(* discover_all_pages (also phase 1 of scrape_entire_website).             *)
(***************************************************************************)
\* lines 423-429: the locals before the loop
EnterDiscovery(su, mp, md) ==
    /\ start_url' = su
    /\ max_pages' = mp
    /\ max_depth' = md
    /\ discovered_urls' = {}
    /\ to_visit' = << [url |-> su, depth |-> 0] >>
    /\ visited' = {}
    /\ cur' = NoEntry
    /\ created' = SetToBag({[url |-> su, depth |-> 0]})
    /\ linked' = {}
    /\ disc_order' = << >>
    /\ fetch_log' = << >>
    /\ urls' = << >>
    /\ i' = 0
    /\ nlinks' = 0
    /\ attempts' = << >>
    /\ op_base' = Len(scraped_data)
    /\ pc' = "while"
    /\ last_net' = "none"
    /\ followed' = {}
    /\ failed' = {}
    /\ scrape_log' = << >>
    /\ popped' = EmptyBag

\* a caller invokes scrape_entire_website(start_url, max_pages, max_depth),
\* which calls discover_all_pages with the same arguments (line 503)
CallEntire(starts, pages, depths) ==
    /\ pc = "idle"
    /\ cls = "complete"
    /\ \E su \in starts, mp \in pages, md \in depths : EnterDiscovery(su, mp, md)
    /\ op' = "entire"
    /\ UNCHANGED << base_url, cls, extracted, files, scraped_data, nops >>

\* list.pop(k), the list that is left (k counted from 1)
RemoveAt(s, k) == SubSeq(s, 1, k - 1) \o SubSeq(s, k + 1, Len(s))

\* faulty variant of the pop: to_visit.pop() takes the newest entry
PopIndexLast(tv) == Len(tv)

\* to_visit.pop(0): the position of the entry the loop takes (line 432)
PopIndex(tv) == 1

\* one iteration that ends in `continue` (lines 432-440)
PopSkip ==
    /\ pc = "while"
    /\ WhileCond(to_visit, discovered_urls, max_pages)
    /\ LET e == to_visit[PopIndex(to_visit)] IN
        /\ SkipEntry(e.url, e.depth, visited, max_depth)
        /\ to_visit' = RemoveAt(to_visit, PopIndex(to_visit))
        /\ popped' = popped (+) SetToBag({e})
    /\ UNCHANGED << base_url, cls, extracted, linked, files, scraped_data, pc, op, nops, start_url, max_pages,
                    max_depth, visited, discovered_urls, cur, urls, i,
                    created, disc_order, fetch_log, attempts, op_base, nlinks >>
    /\ UNCHANGED << last_net, followed, failed, scrape_log >>

\* one iteration up to the test of line 448: the entry is marked visited and
\* discovered
PopAccept ==
    /\ pc = "while"
    /\ WhileCond(to_visit, discovered_urls, max_pages)
    /\ LET e == to_visit[PopIndex(to_visit)]
           clean_url == CleanUrl(e.url)
       IN
        /\ ~SkipEntry(e.url, e.depth, visited, max_depth)
        /\ to_visit' = RemoveAt(to_visit, PopIndex(to_visit))
        /\ popped' = popped (+) SetToBag({e})
        /\ visited' = visited \cup {clean_url}
        /\ discovered_urls' = discovered_urls \cup {clean_url}
        /\ disc_order' = Append(disc_order, [url |-> clean_url, depth |-> e.depth])
        /\ IF ShouldFetch(e.depth, max_depth, discovered_urls', max_pages)
           THEN /\ cur' = [url |-> clean_url, depth |-> e.depth]
                /\ pc' = "fetch"
           ELSE /\ cur' = NoEntry
                /\ pc' = "while"
    /\ UNCHANGED << base_url, cls, extracted, linked, files, scraped_data, op, nops, start_url, max_pages,
                    max_depth, urls, i, created, fetch_log, attempts, op_base, nlinks >>
    /\ UNCHANGED << last_net, followed, failed, scrape_log >>

\* lines 450-455: the request succeeds and the page is parsed
FetchOk ==
    /\ pc = "fetch"
    /\ CanRespond(cur.url)
    /\ fetch_log' = Append(fetch_log, cur.url)
    /\ pc' = "links"
    /\ UNCHANGED << base_url, cls, extracted, linked, files, scraped_data, op, nops, start_url, max_pages,
                    max_depth, to_visit, visited, discovered_urls, cur, urls, i,
                    nlinks, created, disc_order, attempts, op_base >>
    /\ last_net' = "request"
    /\ UNCHANGED << followed, failed, scrape_log, popped >>

\* lines 456-475: the next anchor of the page, with any href of hrefs
Anchor(hrefs) ==
    /\ pc = "links"
    /\ nlinks < MaxAnchors
    /\ \E href \in hrefs :
         LET new == LinkEntries(cur.url, cur.depth, href, base_domain) IN
           /\ to_visit' = to_visit \o new
           /\ created' = created (+) SetToBag({new[k] : k \in 1..Len(new)})
           /\ followed' = IF new = << >> THEN followed ELSE followed \cup {href}
           /\ linked' = linked \cup { [from |-> cur.url, to |-> CleanUrl(new[k].url)] :
                                          k \in 1..Len(new) }
    /\ nlinks' = nlinks + 1
    /\ UNCHANGED << base_url, cls, extracted, files, scraped_data, pc, op, nops, start_url, max_pages,
                    max_depth, visited, discovered_urls, cur, urls, i,
                    disc_order, fetch_log, attempts, op_base >>
    /\ UNCHANGED << last_net, failed, scrape_log, popped >>

\* faulty variant of the end of a page: the sleep sits in the except clause
\* only, so a page that was fetched and parsed is followed by no sleep
AnchorsDoneNoSleep ==
    /\ pc = "links"
    /\ cur' = NoEntry
    /\ pc' = "while"
    /\ UNCHANGED << base_url, cls, extracted, linked, files, scraped_data, op, nops, start_url, max_pages,
                    max_depth, to_visit, visited, discovered_urls, urls, i,
                    nlinks, created, disc_order, fetch_log, attempts, op_base >>
    /\ UNCHANGED << last_net, followed, failed, scrape_log, popped >>

\* lines 477, 483: the page has no further anchor; time.sleep(0.5), then back
\* to the loop test
AnchorsDone ==
    /\ pc = "links"
    /\ cur' = NoEntry
    /\ pc' = "while"
    /\ UNCHANGED << base_url, cls, extracted, linked, files, scraped_data, op, nops, start_url, max_pages,
                    max_depth, to_visit, visited, discovered_urls, urls, i,
                    nlinks, created, disc_order, fetch_log, attempts, op_base >>
    /\ last_net' = "sleep"
    /\ UNCHANGED << followed, failed, scrape_log, popped >>

\* faulty variant of the failed request: the status of the response is not
\* looked at, the anchors of an error page are followed
FetchErrorFollowsBody ==
    /\ pc = "fetch"
    /\ fetch_log' = Append(fetch_log, cur.url)
    /\ pc' = "links"
    /\ last_net' = "request"
    /\ failed' = failed \cup {cur.url}
    /\ UNCHANGED << base_url, cls, extracted, linked, files, scraped_data, op, nops, start_url, max_pages,
                    max_depth, to_visit, visited, discovered_urls, cur, urls, i,
                    created, disc_order, attempts, op_base, nlinks,
                    followed, scrape_log, popped >>

\* faulty variant of the failed request: no except clause, the exception
\* leaves discover_all_pages
FetchErrorPropagates ==
    /\ pc = "fetch"
    /\ fetch_log' = Append(fetch_log, cur.url)
    /\ pc' = "raised"
    /\ UNCHANGED << base_url, cls, extracted, linked, files, scraped_data, op, nops, start_url, max_pages,
                    max_depth, to_visit, visited, discovered_urls, cur, urls, i,
                    created, disc_order, attempts, op_base, nlinks >>
    /\ last_net' = "request"
    /\ failed' = failed \cup {cur.url}
    /\ UNCHANGED << followed, scrape_log, popped >>

\* lines 450-451, 479-483: session.get or raise_for_status raises, the
\* except clause logs a warning; time.sleep(0.5), then back to the loop test
FetchError ==
    /\ pc = "fetch"
    /\ fetch_log' = Append(fetch_log, cur.url)
    /\ cur' = NoEntry
    /\ pc' = "while"
    /\ UNCHANGED << base_url, cls, extracted, linked, files, scraped_data, op, nops, start_url, max_pages,
                    max_depth, to_visit, visited, discovered_urls, urls, i,
                    created, disc_order, attempts, op_base, nlinks >>
    /\ last_net' = "sleep"
    /\ failed' = failed \cup {cur.url}
    /\ UNCHANGED << followed, scrape_log, popped >>

\* lines 431, 485-487: the loop test fails and final_urls =
\* list(discovered_urls) is returned to line 503
DiscoveryReturn ==
    /\ pc = "while"
    /\ ~WhileCond(to_visit, discovered_urls, max_pages)
    /\ urls' \in ListOfSet(discovered_urls)
    /\ pc' = "returned"
    /\ UNCHANGED << base_url, cls, extracted, linked, files, scraped_data, op, nops, start_url, max_pages,
                    max_depth, to_visit, visited, discovered_urls, cur, i, nlinks,
                    created, disc_order, fetch_log, attempts, op_base >>
    /\ UNCHANGED << last_net, followed, failed, scrape_log, popped >>

\* the locals of a finished call are gone
Forget ==
    /\ start_url' = << >>
    /\ max_pages' = 0
    /\ max_depth' = 0
    /\ to_visit' = << >>
    /\ visited' = {}
    /\ discovered_urls' = {}
    /\ cur' = NoEntry
    /\ urls' = << >>
    /\ i' = 0
    /\ nlinks' = 0
    /\ created' = EmptyBag
    /\ linked' = {}
    /\ popped' = EmptyBag
    /\ disc_order' = << >>
    /\ fetch_log' = << >>
    /\ attempts' = << >>
    /\ op_base' = 0
    /\ op' = "none"
    /\ pc' = "idle"
    /\ nops' = nops + 1
    /\ last_net' = "none"
    /\ followed' = {}
    /\ failed' = {}
    /\ scrape_log' = << >>

(***************************************************************************)
(* scrape_entire_website phase 2 and scrape_multiple_urls.                 *)
(***************************************************************************)
\* scrape_page(url) returned a dict: the record of the page
PageRecord(url) == [url |-> url]

\* faulty variant of the append: the record is put in front of the others
AppendedFirst(data, url, ok) == IF ok THEN << PageRecord(url) >> \o data ELSE data

\* faulty variant of the append: a record is appended after a failure too
AppendedAlways(data, url, ok) == Append(data, PageRecord(url))

\* if data: self.scraped_data.append(data)   (data is None after a failure)
Appended(data, url, ok) == IF ok THEN Append(data, PageRecord(url)) ELSE data

\* lines 505-507: if not all_urls: return []
EntireNoPages ==
    /\ pc = "returned" /\ op = "entire"
    /\ urls = << >>
    /\ Forget
    /\ UNCHANGED << base_url, cls, extracted, files, scraped_data >>

\* faulty variant of the start of phase 2: the URLs whose page discovery has
\* already requested are not scraped again
EntirePhase2ReuseDiscovery ==
    /\ pc = "returned" /\ op = "entire"
    /\ urls # << >>
    /\ urls' = SelectSeq(urls, LAMBDA u : \A k \in 1..Len(fetch_log) : fetch_log[k] # u)
    /\ i' = 1
    /\ pc' = IF urls' = << >> THEN "scraped" ELSE "scrape"
    /\ to_visit' = << >>
    /\ visited' = {}
    /\ discovered_urls' = {}
    /\ nlinks' = 0
    /\ created' = EmptyBag
    /\ linked' = {}
    /\ popped' = EmptyBag
    /\ disc_order' = << >>
    /\ followed' = {}
    /\ failed' = {}
    /\ UNCHANGED << base_url, cls, extracted, files, scraped_data, op, nops, start_url, max_pages,
                    max_depth, cur, attempts, op_base, fetch_log, last_net,
                    scrape_log >>

\* lines 509-513: phase 2 starts on all_urls; the locals of
\* discover_all_pages are gone
EntirePhase2 ==
    /\ pc = "returned" /\ op = "entire"
    /\ urls # << >>
    /\ i' = 1
    /\ pc' = "scrape"
    /\ to_visit' = << >>
    /\ visited' = {}
    /\ discovered_urls' = {}
    /\ nlinks' = 0
    /\ created' = EmptyBag
    /\ linked' = {}
    /\ popped' = EmptyBag
    /\ disc_order' = << >>
    /\ UNCHANGED << base_url, cls, extracted, files, scraped_data, op, nops, start_url, max_pages,
                    max_depth, cur, urls, attempts, op_base, fetch_log >>
    /\ followed' = {}
    /\ failed' = {}
    /\ UNCHANGED << last_net, scrape_log >>

\* a caller invokes scrape_multiple_urls(urls)
CallMultiple ==
    /\ pc = "idle"
    /\ cls = "complete"
    /\ \E seeds \in SeedLists :
         /\ urls' = seeds
         /\ i' = 1
         /\ pc' = IF seeds = << >> THEN "scraped" ELSE "scrape"
    /\ op' = "multiple"
    /\ op_base' = Len(scraped_data)
    /\ attempts' = << >>
    /\ UNCHANGED << base_url, cls, extracted, linked, files, scraped_data, nops, start_url, max_pages, max_depth,
                    crawlVars >>
    /\ UNCHANGED << last_net, followed, failed, scrape_log, popped >>

\* one iteration of the scrape loop (lines 373-380 and 513-522): scrape_page
\* returns a record or None
ScrapePage(ok) ==
    /\ pc = "scrape"
    /\ ok => CanRespond(urls[i])
    /\ scraped_data' = Appended(scraped_data, urls[i], ok)
    /\ attempts' = Append(attempts, ok)
    /\ pc' = IF i < Len(urls) THEN "scrape_sleep" ELSE "scraped"
    /\ UNCHANGED << base_url, cls, extracted, linked, files, op, nops, start_url, max_pages, max_depth,
                    crawlVars, urls, i, op_base >>
    /\ last_net' = "request"
    /\ scrape_log' = Append(scrape_log, urls[i])
    /\ UNCHANGED << followed, failed, popped >>

ScrapeOk == ScrapePage(TRUE)

ScrapeFail == ScrapePage(FALSE)

\* lines 383-385 and 529-530: time.sleep(self.delay) when i < len(urls)
ScrapeSleep ==
    /\ pc = "scrape_sleep"
    /\ i' = i + 1
    /\ pc' = "scrape"
    /\ UNCHANGED << base_url, cls, extracted, linked, files, scraped_data, op, nops, start_url, max_pages,
                    max_depth, crawlVars, urls, attempts, op_base >>
    /\ last_net' = "sleep"
    /\ UNCHANGED << followed, failed, scrape_log, popped >>

\* lines 387 and 537: return self.scraped_data
ScrapeReturn ==
    /\ pc = "scraped"
    /\ Forget
    /\ UNCHANGED << base_url, cls, extracted, files, scraped_data >>

(***************************************************************************)
(* WebScraperForLLM (src/web_scraper.py): discover_urls.                   *)
(***************************************************************************)
\* if url in visited or depth > max_depth: continue
LLMSkipEntry(url, depth, vis, md) == url \in vis \/ depth > md

\* the frontier entries one anchor adds: urljoin(url, href), kept when its
\* netloc is that of base_url
LLMLinkEntries(url, depth, href, base) ==
    LET full_url == UrlJoin(url, href) IN
    IF Netloc(full_url) = Netloc(base)
    THEN << [url |-> full_url, depth |-> depth + 1] >>
    ELSE << >>

\* a caller invokes discover_urls(start_url, max_depth); the locals before
\* the loop
LLMCallDiscover(starts, depths) ==
    /\ pc = "idle"
    /\ cls = "llm"
    /\ \E su \in starts, md \in depths :
         /\ start_url' = su
         /\ max_depth' = md
         /\ to_visit' = << [url |-> su, depth |-> 0] >>
         /\ created' = SetToBag({[url |-> su, depth |-> 0]})
         /\ linked' = {}
    /\ max_pages' = 0
    /\ discovered_urls' = {}
    /\ visited' = {}
    /\ cur' = NoEntry
    /\ popped' = EmptyBag
    /\ disc_order' = << >>
    /\ fetch_log' = << >>
    /\ urls' = << >>
    /\ i' = 0
    /\ nlinks' = 0
    /\ attempts' = << >>
    /\ op_base' = Len(scraped_data)
    /\ last_net' = "none"
    /\ followed' = {}
    /\ failed' = {}
    /\ scrape_log' = << >>
    /\ op' = "discover_urls"
    /\ pc' = "l_while"
    /\ UNCHANGED << base_url, cls, extracted, files, scraped_data, nops >>

\* one iteration that ends in `continue`
LLMPopSkip ==
    /\ pc = "l_while"
    /\ to_visit # << >>
    /\ LET e == Head(to_visit) IN
        /\ LLMSkipEntry(e.url, e.depth, visited, max_depth)
        /\ to_visit' = Tail(to_visit)
        /\ popped' = popped (+) SetToBag({e})
    /\ UNCHANGED << base_url, cls, extracted, linked, files, scraped_data, pc, op, nops, start_url,
                    max_pages, max_depth, visited, discovered_urls, cur, urls, i,
                    nlinks, created, disc_order, fetch_log, attempts, op_base,
                    last_net, followed, failed, scrape_log >>

\* one iteration up to `if depth < max_depth`: the URL as popped is marked
\* visited and discovered
LLMPopAccept ==
    /\ pc = "l_while"
    /\ to_visit # << >>
    /\ LET e == Head(to_visit) IN
        /\ ~LLMSkipEntry(e.url, e.depth, visited, max_depth)
        /\ to_visit' = Tail(to_visit)
        /\ popped' = popped (+) SetToBag({e})
        /\ visited' = visited \cup {e.url}
        /\ discovered_urls' = discovered_urls \cup {e.url}
        /\ disc_order' = Append(disc_order, e)
        /\ IF e.depth < max_depth
           THEN cur' = e /\ pc' = "l_fetch"
           ELSE cur' = NoEntry /\ pc' = "l_while"
    /\ UNCHANGED << base_url, cls, extracted, linked, files, scraped_data, op, nops, start_url,
                    max_pages, max_depth, urls, i, nlinks, created, fetch_log,
                    attempts, op_base, last_net, followed, failed, scrape_log >>

\* session.get returns a response, whatever its status, and its body is
\* parsed
LLMResponse(status) ==
    /\ pc = "l_fetch"
    /\ CanRespond(cur.url)
    /\ fetch_log' = Append(fetch_log, cur.url)
    /\ failed' = IF status = "2xx" THEN failed ELSE failed \cup {cur.url}
    /\ pc' = "l_links"
    /\ last_net' = "request"
    /\ UNCHANGED << base_url, cls, extracted, linked, files, scraped_data, op, nops, start_url,
                    max_pages, max_depth, to_visit, visited, discovered_urls,
                    cur, urls, i, nlinks, created, disc_order, attempts, op_base,
                    followed, scrape_log, popped >>

LLMResponseOk == LLMResponse("2xx")

LLMResponseNot2xx == LLMResponse("non2xx")

\* the next anchor of the body, with any href of hrefs
LLMAnchor(hrefs) ==
    /\ pc = "l_links"
    /\ nlinks < MaxAnchors
    /\ \E href \in hrefs :
         LET new == LLMLinkEntries(cur.url, cur.depth, href, base_url) IN
           /\ to_visit' = to_visit \o new
           /\ created' = created (+) SetToBag({new[k] : k \in 1..Len(new)})
           /\ followed' = IF new = << >> THEN followed ELSE followed \cup {href}
    /\ nlinks' = nlinks + 1
    /\ UNCHANGED << base_url, cls, extracted, linked, files, scraped_data, pc, op, nops, start_url,
                    max_pages, max_depth, visited, discovered_urls, cur, urls, i,
                    disc_order, fetch_log, attempts, op_base, last_net, failed,
                    scrape_log, popped >>

\* the body has no further anchor; time.sleep(self.delay), then back to the
\* loop test
LLMAnchorsDone ==
    /\ pc = "l_links"
    /\ cur' = NoEntry
    /\ pc' = "l_while"
    /\ last_net' = "sleep"
    /\ UNCHANGED << base_url, cls, extracted, linked, files, scraped_data, op, nops, start_url,
                    max_pages, max_depth, to_visit, visited, discovered_urls,
                    urls, i, nlinks, created, disc_order, fetch_log, attempts,
                    op_base, followed, failed, scrape_log, popped >>

\* session.get raises (transport error, timeout): the except clause logs;
\* time.sleep(self.delay), then back to the loop test
LLMFetchError ==
    /\ pc = "l_fetch"
    /\ fetch_log' = Append(fetch_log, cur.url)
    /\ failed' = failed \cup {cur.url}
    /\ cur' = NoEntry
    /\ pc' = "l_while"
    /\ last_net' = "sleep"
    /\ UNCHANGED << base_url, cls, extracted, linked, files, scraped_data, op, nops, start_url,
                    max_pages, max_depth, to_visit, visited, discovered_urls,
                    urls, i, nlinks, created, disc_order, attempts, op_base,
                    followed, scrape_log, popped >>

\* the frontier is empty: return list(discovered_urls)
LLMDiscoverReturn ==
    /\ pc = "l_while"
    /\ to_visit = << >>
    /\ urls' \in ListOfSet(discovered_urls)
    /\ pc' = "l_returned"
    /\ UNCHANGED << base_url, cls, extracted, linked, files, scraped_data, op, nops, start_url,
                    max_pages, max_depth, to_visit, visited, discovered_urls,
                    cur, i, nlinks, created, disc_order, fetch_log, attempts,
                    op_base, last_net, followed, failed, scrape_log, popped >>

\* the caller has the list; the locals are gone
LLMDiscoverEnd ==
    /\ pc = "l_returned"
    /\ Forget
    /\ UNCHANGED << base_url, cls, extracted, files, scraped_data >>

(***************************************************************************)
(* WebScraperForLLM: scrape_page and scrape_multiple_urls.                 *)
(***************************************************************************)
\* what the extractors of scrape_page find in a page: the title, the main
\* content ("" or a text), the FAQ entries, the product fields found (as
\* (key, value) pairs in the order of the dict) and the links
LLMRecord(url, page) ==
    [ url          |-> url,
      title        |-> page.title,
      main_content |-> page.main_content,
      faq_content  |-> page.faq_content,
      product_info |-> page.product_info,
      links        |-> page.links ]

\* the n first FAQ entries of a page; the extractor keeps an entry only
\* when its question and its answer are both non-empty
FaqEntries(n) ==
    [ k \in 1..n |-> [question |-> [j \in 1..k |-> "Q"], answer |-> [j \in 1..k |-> "A"]] ]

\* the pages of the site the multi-operation runs scrape
SitePage(url) ==
    IF url = HomeUrl
    THEN [ title        |-> "Home",
           main_content |-> "LONG",
           faq_content  |-> FaqEntries(1),
           product_info |-> << [key |-> "description", value |-> "D"],
                               [key |-> "price", value |-> "P"] >>,
           links        |-> << [url |-> <<"/", "p">>, anchor_text |-> "p"] >> ]
    ELSE [ title        |-> "",
           main_content |-> "",
           faq_content  |-> << >>,
           product_info |-> << >>,
           links        |-> << >> ]

\* if data: self.scraped_data.append(data)
LLMAppended(data, url, page, ok) ==
    IF ok THEN Append(data, LLMRecord(url, page)) ELSE data

\* a caller invokes scrape_multiple_urls(urls)
LLMCallMultiple ==
    /\ pc = "idle"
    /\ cls = "llm"
    /\ \E seeds \in SeedLists :
         /\ urls' = seeds
         /\ i' = 1
         /\ pc' = IF seeds = << >> THEN "l_scraped" ELSE "l_scrape"
    /\ op' = "l_multiple"
    /\ op_base' = Len(scraped_data)
    /\ attempts' = << >>
    /\ UNCHANGED << base_url, cls, extracted, linked, files, scraped_data, nops, start_url, max_pages,
                    max_depth, crawlVars, last_net, followed, failed, scrape_log,
                    popped >>

\* one iteration of the loop up to the sleep: scrape_page returns a record
\* or None
LLMScrapePage(ok) ==
    /\ pc = "l_scrape"
    /\ ok => CanRespond(urls[i])
    /\ scraped_data' = LLMAppended(scraped_data, urls[i], SitePage(urls[i]), ok)
    /\ attempts' = Append(attempts, ok)
    /\ scrape_log' = Append(scrape_log, urls[i])
    /\ last_net' = "request"
    /\ pc' = "l_sleep"
    /\ UNCHANGED << base_url, cls, extracted, linked, files, op, nops, start_url, max_pages, max_depth,
                    crawlVars, urls, i, op_base, followed, failed, popped >>

LLMScrapeOk == LLMScrapePage(TRUE)

LLMScrapeFail == LLMScrapePage(FALSE)

\* time.sleep(self.delay) after every URL, the last one too
LLMScrapeSleep ==
    /\ pc = "l_sleep"
    /\ last_net' = "sleep"
    /\ i' = i + 1
    /\ pc' = IF i < Len(urls) THEN "l_scrape" ELSE "l_scraped"
    /\ UNCHANGED << base_url, cls, extracted, linked, files, scraped_data, op, nops, start_url,
                    max_pages, max_depth, crawlVars, urls, attempts, op_base,
                    followed, failed, scrape_log, popped >>

\* return self.scraped_data
LLMScrapeReturn ==
    /\ pc = "l_scraped"
    /\ Forget
    /\ UNCHANGED << base_url, cls, extracted, files, scraped_data >>

(***************************************************************************)
(* The exports of both classes. An export runs between two operations; it  *)
(* leaves the count of operations to the specification that uses it.       *)
(***************************************************************************)
\* the variables of a running crawl or scrape loop
opVars == << pc, op, start_url, max_pages, max_depth, urls, i, attempts, op_base,
             last_net, followed, failed, scrape_log, popped, crawlVars >>

\* open(filename, 'w') ... : the file holds these lines and nothing else
Written(lines) == [written |-> TRUE, lines |-> lines]

\* json.dump(self.scraped_data, f): the records, in order
JsonDump(data) == [ k \in 1..Len(data) |-> data[k] ]

\* save_to_json of either class
SaveToJson ==
    /\ pc = "idle"
    /\ files' = [files EXCEPT !["json"] = Written(JsonDump(scraped_data))]
    /\ UNCHANGED << base_url, cls, extracted, linked, scraped_data, opVars >>

\* the block create_text_only_file writes for one record
TextBlock(item) == <<"URL: ">> \o item.url

\* CompleteTextWebScraper.create_text_only_file
CreateTextOnlyFile ==
    /\ pc = "idle"
    /\ cls = "complete"
    /\ files' = [files EXCEPT !["txt"] =
                    Written([ k \in 1..Len(scraped_data) |-> TextBlock(scraped_data[k]) ])]
    /\ UNCHANGED << base_url, cls, extracted, linked, scraped_data, opVars >>

\* CompleteTextWebScraper.get_summary_stats: computes and returns a dict
GetSummaryStats ==
    /\ pc = "idle"
    /\ cls = "complete"
    /\ UNCHANGED << base_url, cls, extracted, linked, files, scraped_data, opVars >>

\* the flat row of one record
CsvRow(item) ==
    [ url          |-> item.url,
      title        |-> item.title,
      main_content |-> item.main_content,
      faq_count    |-> Len(item.faq_content),
      links_count  |-> Len(item.links) ]

\* the header row df.to_csv writes: the keys of flat_item
CsvHeader == [columns |-> <<"url", "title", "main_content", "faq_count", "links_count">>]

\* pd.DataFrame(flattened_data).to_csv(filename, index=False): the header,
\* then one row per record
CsvLines(data) == << CsvHeader >> \o [ k \in 1..Len(data) |-> CsvRow(data[k]) ]

\* WebScraperForLLM.save_to_csv: returns at once when there is no record,
\* else writes the header and one row per record
SaveToCsv ==
    /\ pc = "idle"
    /\ cls = "llm"
    /\ files' = IF scraped_data = << >>
                THEN files
                ELSE [files EXCEPT !["csv"] = Written(CsvLines(scraped_data))]
    /\ UNCHANGED << base_url, cls, extracted, linked, scraped_data, opVars >>

\* item['main_content'][:500] + "..." if len(item['main_content']) > 500
SummaryOutput(main_content) ==
    IF main_content = "LONG" THEN "LONG[:500]..." ELSE main_content

\* 1. one example per FAQ entry
FaqExamples(item) ==
    [ k \in 1..Len(item.faq_content) |->
        [ input      |-> item.faq_content[k].question,
          output     |-> item.faq_content[k].answer,
          source_url |-> item.url,
          type       |-> "faq" ] ]

\* faulty variant of the page summary: emitted as soon as there is a title
SummaryExamplesTitleOnly(item) ==
    IF item.title # ""
    THEN << [ input      |-> <<"What can you tell me about", item.title>>,
              output     |-> SummaryOutput(item.main_content),
              source_url |-> item.url,
              type       |-> "page_summary" ] >>
    ELSE << >>

\* 2. if item['title'] and item['main_content']: one page summary
SummaryExamples(item) ==
    IF item.title # "" /\ item.main_content # ""
    THEN << [ input      |-> <<"What can you tell me about", item.title>>,
              output     |-> SummaryOutput(item.main_content),
              source_url |-> item.url,
              type       |-> "page_summary" ] >>
    ELSE << >>

\* 3. one example per (key, value) of product_info with a value
ProductExamples(item) ==
    LET fields == SelectSeq(item.product_info, LAMBDA f : f.value # "") IN
    [ k \in 1..Len(fields) |->
        [ input      |-> <<"Tell me about the", fields[k].key>>,
          output     |-> fields[k].value,
          source_url |-> item.url,
          type       |-> "product_info" ] ]

\* the examples of one record
ExamplesOf(item) == FaqExamples(item) \o SummaryExamples(item) \o ProductExamples(item)

RECURSIVE TrainingData(_)
\* training_data after the loop over the records
TrainingData(data) ==
    IF data = << >> THEN << >>
    ELSE TrainingData(SubSeq(data, 1, Len(data) - 1)) \o ExamplesOf(data[Len(data)])

\* WebScraperForLLM.create_llm_training_format: one line per example
CreateLlmTrainingFormat ==
    /\ pc = "idle"
    /\ cls = "llm"
    /\ files' = [files EXCEPT !["jsonl"] = Written(TrainingData(scraped_data))]
    /\ UNCHANGED << base_url, cls, extracted, linked, scraped_data, opVars >>

(***************************************************************************)
(* Spec: one operation on a fresh instance, with every explored argument   *)
(* and every explored href.                                                *)
(***************************************************************************)
FirstEntire == nops = 0 /\ CallEntire(StartUrls, MaxPagesArgs, MaxDepthArgs)

FirstMultiple == nops = 0 /\ CallMultiple

AnyAnchor == Anchor(Hrefs)

Next ==
    \/ FirstEntire
    \/ FirstMultiple
    \/ PopSkip
    \/ PopAccept
    \/ FetchOk
    \/ AnyAnchor
    \/ AnchorsDone
    \/ FetchError
    \/ DiscoveryReturn
    \/ EntireNoPages
    \/ EntirePhase2
    \/ ScrapeOk
    \/ ScrapeFail
    \/ ScrapeSleep
    \/ ScrapeReturn

Spec == Init /\ [][Next]_vars

\* the interpreter runs the single thread on: a step that can be taken is
\* not postponed forever
FairSpec == Spec /\ WF_vars(Next)

(***************************************************************************)
(* SpecLLM: one discover_urls call on a fresh WebScraperForLLM instance.   *)
(***************************************************************************)
\* href attribute values an anchor of a response body may carry
LLMHrefs ==
    { <<"/", "p">>,
      <<"/", "p", "#", "f">>,
      <<"#", "f">>,
      <<"https:", "//", "b.com", "/">>,
      << >> }

\* WebScraperForLLM.__init__: self.scraped_data = []
InitLLM == InitInstance({"llm"}) /\ scraped_data = << >>

FirstLLMDiscover == nops = 0 /\ LLMCallDiscover(StartUrls, MaxDepthArgs)

LLMAnyAnchor == LLMAnchor(LLMHrefs)

NextLLM ==
    \/ FirstLLMDiscover
    \/ LLMPopSkip
    \/ LLMPopAccept
    \/ LLMResponseOk
    \/ LLMResponseNot2xx
    \/ LLMAnyAnchor
    \/ LLMAnchorsDone
    \/ LLMFetchError
    \/ LLMDiscoverReturn
    \/ LLMDiscoverEnd

SpecLLM == InitLLM /\ [][NextLLM]_vars

(***************************************************************************)
(* SpecOps: up to MaxOps operations in a row on one instance; the crawls   *)
(* start at the homepage, with the arguments and hrefs below.              *)
(***************************************************************************)
OpsMaxPages == {0, 3}

OpsMaxDepths == {1}

OpsHrefs == { <<"/", "p">>, <<"/", "p", "#", "f">>, <<"https:", "//", "b.com", "/">> }

NextEntire == nops < MaxOps /\ CallEntire({HomeUrl}, OpsMaxPages, OpsMaxDepths)

NextMultiple == nops < MaxOps /\ CallMultiple

SiteAnchor == Anchor(OpsHrefs)

\* the operations of a WebScraperForLLM instance
LLMMaxDepths == {1}

NextLLMDiscover == nops < MaxOps /\ LLMCallDiscover({HomeUrl}, LLMMaxDepths)

NextLLMMultiple == nops < MaxOps /\ LLMCallMultiple

LLMSiteAnchor == LLMAnchor(OpsHrefs)

\* an export is one more operation on the instance
NextSaveToJson == nops < MaxOps /\ SaveToJson /\ nops' = nops + 1

NextCreateTextOnlyFile == nops < MaxOps /\ CreateTextOnlyFile /\ nops' = nops + 1

NextGetSummaryStats == nops < MaxOps /\ GetSummaryStats /\ nops' = nops + 1

NextSaveToCsv == nops < MaxOps /\ SaveToCsv /\ nops' = nops + 1

NextCreateLlmTrainingFormat == nops < MaxOps /\ CreateLlmTrainingFormat /\ nops' = nops + 1

NextOps ==
    \/ NextEntire
    \/ NextMultiple
    \/ NextLLMDiscover
    \/ LLMPopSkip
    \/ LLMPopAccept
    \/ LLMResponseOk
    \/ LLMResponseNot2xx
    \/ LLMSiteAnchor
    \/ LLMAnchorsDone
    \/ LLMFetchError
    \/ LLMDiscoverReturn
    \/ LLMDiscoverEnd
    \/ NextLLMMultiple
    \/ LLMScrapeOk
    \/ LLMScrapeFail
    \/ LLMScrapeSleep
    \/ LLMScrapeReturn
    \/ NextSaveToJson
    \/ NextCreateTextOnlyFile
    \/ NextGetSummaryStats
    \/ NextSaveToCsv
    \/ NextCreateLlmTrainingFormat
    \/ PopSkip
    \/ PopAccept
    \/ FetchOk
    \/ SiteAnchor
    \/ AnchorsDone
    \/ FetchError
    \/ DiscoveryReturn
    \/ EntireNoPages
    \/ EntirePhase2
    \/ ScrapeOk
    \/ ScrapeFail
    \/ ScrapeSleep
    \/ ScrapeReturn

\* __init__ of an instance of either class
InitOps == InitInstance({"complete", "llm"}) /\ scraped_data = << >>

SpecOps == InitOps /\ [][NextOps]_vars

(***************************************************************************)
(* SpecExport: the exports of a WebScraperForLLM instance whose            *)
(* scraped_data holds up to MaxRecords records of any pages.               *)
(***************************************************************************)
\* what scrape_page can extract from a page
ExportPages ==
    [ title        : {"", "T"},
      main_content : {"", "M"},
      faq_content  : { FaqEntries(n) : n \in 0..MaxFaq },
      product_info : { << >>,
                       << [key |-> "description", value |-> "D"],
                          [key |-> "price", value |-> "P"] >> },
      links        : { << >> } ]

ExportRecords == { LLMRecord(url, page) : url \in SeedUrls, page \in ExportPages }

InitExport ==
    /\ InitInstance({"llm"})
    /\ scraped_data \in SeqsUpTo(ExportRecords, MaxRecords)

ExportTraining == CreateLlmTrainingFormat /\ UNCHANGED nops

NextExport ==
    \/ ExportTraining

SpecExport == InitExport /\ [][NextExport]_vars

(***************************************************************************)
(* scrape_page: the parsed document and the field extractors.              *)
(*                                                                         *)
(* A text is a sequence of characters.  The parsed document (soup) is the  *)
(* sequence of its text-bearing elements in document order; an element     *)
(* has a tag, the element that encloses it ("head", "body", or a           *)
(* container such as "noscript" or "nav"), a class and its text.           *)
(* decompose() takes an element out of the document for every extractor    *)
(* that runs after it.                                                     *)
(***************************************************************************)
Text(n) == [ j \in 1..n |-> "x" ]

\* the same text between white space
Padded(n) == << " " >> \o Text(n) \o << " " >>

RECURSIVE StripLeft(_)
StripLeft(t) == IF t # << >> /\ Head(t) = " " THEN StripLeft(Tail(t)) ELSE t

RECURSIVE StripRight(_)
StripRight(t) ==
    IF t # << >> /\ t[Len(t)] = " " THEN StripRight(SubSeq(t, 1, Len(t) - 1)) ELSE t

\* str.strip()
Strip(t) == StripRight(StripLeft(t))

Element(tag, within, class, text) ==
    [tag |-> tag, within |-> within, class |-> class, text |-> text]

\* soup.find_all(tag)
FindAll(soup, tags) == SelectSeq(soup, LAMBDA e : e.tag \in tags)

\* element.decompose() for every element with one of the tags: the element
\* and what it encloses leave the document
Decompose(soup, tags) ==
    SelectSeq(soup, LAMBDA e : e.tag \notin tags /\ e.within \notin tags)

\* elem.decompose() for every element soup.select('.class') finds
DecomposeClasses(soup, classes) == SelectSeq(soup, LAMBDA e : e.class \notin classes)

\* get_text(): the strings of the document, concatenated as they are
RECURSIVE GetText(_)
GetText(soup) == IF soup = << >> THEN << >> ELSE Head(soup).text \o GetText(Tail(soup))

\* get_text(separator=' ', strip=True): the stripped strings that are not
\* empty, joined by one space
RECURSIVE GetTextStripped(_)
GetTextStripped(soup) ==
    IF soup = << >> THEN << >>
    ELSE LET h == Strip(Head(soup).text)
             r == GetTextStripped(Tail(soup))
         IN IF h = << >> THEN r
            ELSE IF r = << >> THEN h
            ELSE h \o << " " >> \o r

\* _extract_title: the stripped text of the first title element, or ""
ExtractTitle(soup) ==
    LET t == FindAll(soup, {"title"}) IN IF t = << >> THEN << >> ELSE Strip(t[1].text)

\* the document after _extract_complete_body_text: script, style and
\* noscript elements are decomposed
BodyTextSoup(soup) == Decompose(soup, {"script", "style", "noscript"})

\* _extract_complete_body_text: the text of body after the decomposition
\* (the texts of the model hold no inner white space for re.sub to collapse)
ExtractCompleteBodyText(soup) ==
    Strip(GetTextStripped(SelectSeq(BodyTextSoup(soup), LAMBDA e : e.within # "head")))

\* if text and len(text) > 10
KeepParagraph(text) == text # << >> /\ Len(text) > 10

\* _extract_all_paragraphs
ExtractAllParagraphs(soup) ==
    LET ps == FindAll(soup, {"p"})
        stripped == [ k \in 1..Len(ps) |-> Strip(ps[k].text) ]
    IN SelectSeq(stripped, KeepParagraph)

\* the document after _extract_all_visible_text: the elements matched by
\* invisible_elements are decomposed (no element of the model has a style
\* attribute)
VisibleTextSoup(soup) ==
    DecomposeClasses(Decompose(soup, {"script", "style", "noscript", "meta", "link", "title"}),
                     {"sr-only", "visually-hidden", "screen-reader-text"})

\* _extract_all_visible_text
ExtractAllVisibleText(soup) == GetTextStripped(VisibleTextSoup(soup))

\* the tags _extract_structured_content looks for
SectionTags == {"nav", "header", "main", "aside", "footer", "article", "section"}

\* if text and len(text) > 20
KeepSection(text) == text # << >> /\ Len(text) > 20

\* _extract_structured_content: for each tag the texts of its elements that
\* pass the length filter
ExtractStructuredContent(soup) ==
    [ tag \in SectionTags |->
        LET es == FindAll(soup, {tag})
            texts == [ k \in 1..Len(es) |-> Strip(es[k].text) ]
        IN SelectSeq(texts, KeepSection) ]

\* _calculate_page_statistics: the counts the model keeps
CalculatePageStatistics(soup) ==
    [ total_characters |-> Len(GetText(soup)),
      total_paragraphs |-> Len(FindAll(soup, {"p"})) ]

\* the dict CompleteTextWebScraper.scrape_page builds (lines 58-78), its
\* entries evaluated in order on the one soup: the extractors that run
\* after _extract_complete_body_text see the document it left, those after
\* _extract_all_visible_text the document that one left
CompleteData(url, soup, now) ==
    LET s1 == BodyTextSoup(soup)
        s2 == VisibleTextSoup(s1)
    IN [ url                   |-> url,
         timestamp             |-> now,
         title                 |-> ExtractTitle(soup),
         complete_body_text    |-> ExtractCompleteBodyText(soup),
         all_paragraph_text    |-> ExtractAllParagraphs(s1),
         complete_visible_text |-> ExtractAllVisibleText(s1),
         structured_content    |-> ExtractStructuredContent(s2),
         page_statistics       |-> CalculatePageStatistics(s2) ]

\* list(set(nav_text)): the elements once each, in the iteration order of
\* the set in this process
NavList(S) == CHOOSE f \in ListOfSet(S) : TRUE

\* WebScraperForLLM._extract_navigation_text: the texts of the links inside
\* nav elements, without duplicates
ExtractNavigationText(soup) ==
    LET as == SelectSeq(soup, LAMBDA e : e.tag = "a" /\ e.within = "nav")
    IN NavList({ Strip(as[k].text) : k \in { j \in 1..Len(as) : Strip(as[j].text) # << >> } })

\* WebScraperForLLM._extract_clean_text
ExtractCleanText(soup) ==
    Strip(GetTextStripped(Decompose(soup, {"script", "style", "nav", "header", "footer",
                                           "aside"})))

\* the dict WebScraperForLLM.scrape_page builds (lines 58-71), for the
\* fields the model keeps
LLMData(url, soup, now) ==
    [ url             |-> url,
      timestamp       |-> now,
      title           |-> ExtractTitle(soup),
      navigation_text |-> ExtractNavigationText(soup),
      clean_text      |-> ExtractCleanText(soup) ]

\* a caller invokes scrape_page(url); the server answers 2xx with html and
\* datetime.now() reads now
CallScrapePage(url, html, now) ==
    /\ pc = "idle"
    /\ extracted' = Append(extracted,
                           [ url  |-> url,
                             html |-> html,
                             data |-> IF cls = "complete"
                                      THEN CompleteData(url, html, now)
                                      ELSE LLMData(url, html, now) ])
    /\ UNCHANGED << base_url, cls, files, scraped_data, opVars, linked >>

\* a caller invokes scrape_page(url) and the request or the parsing raises:
\* the except clause returns None
CallScrapePageFails ==
    /\ pc = "idle"
    /\ UNCHANGED << base_url, cls, files, scraped_data, opVars, extracted, linked >>

(***************************************************************************)
(* SpecExtract: up to MaxOps scrape_page calls on an instance of either    *)
(* class.  The first call receives any document of up to MaxElems          *)
(* elements; each later call asks for a page again that an earlier call    *)
(* received, and the server sends the same document.                       *)
(***************************************************************************)
\* text lengths around the thresholds of the length filters
ThresholdLens == {0, 9, 10, 11, 19, 20, 21}

CompleteElements ==
    { Element("title", "head", "", Text(5)),
      Element("script", "body", "", Text(5)),
      Element("p", "noscript", "", Text(12)),
      Element("p", "body", "sr-only", Text(12)) }
    \cup { Element("p", "body", "", Text(n)) : n \in ThresholdLens }
    \cup { Element("p", "body", "", Padded(n)) : n \in ThresholdLens }
    \cup { Element("section", "body", "", Text(n)) : n \in ThresholdLens }

LLMElements ==
    { Element("title", "head", "", Text(5)),
      Element("a", "nav", "", << "a" >>),
      Element("a", "nav", "", << "b" >>),
      Element("p", "body", "", Text(12)) }

\* the documents a server may send
DocsOf(class) ==
    SeqsUpTo(IF class = "complete" THEN CompleteElements ELSE LLMElements, MaxElems)

\* the readings of the clock
Timestamps == 1..MaxClock

\* the clock does not run backwards between two calls
ClockAfter(log) ==
    IF log = << >> THEN Timestamps
    ELSE { t \in Timestamps : t >= log[Len(log)].data.timestamp }

InitExtract == InitInstance({"complete", "llm"}) /\ scraped_data = << >>

FirstScrapePage ==
    /\ nops = 0
    /\ \E url \in SeedUrls, html \in DocsOf(cls), now \in Timestamps :
         CallScrapePage(url, html, now)
    /\ nops' = nops + 1

ScrapePageAgain ==
    /\ nops \in 1..(MaxOps - 1)
    /\ \E k \in 1..Len(extracted), now \in ClockAfter(extracted) :
         CallScrapePage(extracted[k].url, extracted[k].html, now)
    /\ nops' = nops + 1

ScrapePageFails ==
    /\ nops < MaxOps
    /\ CallScrapePageFails
    /\ nops' = nops + 1

NextExtract ==
    \/ FirstScrapePage
    \/ ScrapePageAgain
    \/ ScrapePageFails

SpecExtract == InitExtract /\ [][NextExtract]_vars

(***************************************************************************)
(* SpecReach: the discover_all_pages call of scrape_entire_website, up to  *)
(* its return, on a site of four pages where the page /p is linked from    *)
(* the homepage and, with a fragment, from the page /q.                    *)
(***************************************************************************)
\* the href values an anchor of the page may carry
ReachHrefs(url) ==
    CASE url = HomeUrl -> { <<"/", "p">>, <<"/", "q">> }
      [] url = HomeUrl \o << "q" >> -> { <<"/", "p", "#", "f">>, <<"/", "d", ".pdf">> }
      [] url = HomeUrl \o << "p" >> -> { <<"/", "r">>, <<"https:", "//", "b.com", "/">> }
      [] OTHER -> { }

\* a cap that stops the crawl and a cap the site stays under
ReachMaxPages == { MaxPagesArg, MaxPagesArg + 2 }

ReachMaxDepths == { 1, MaxDepthArg }

FirstReach == nops = 0 /\ CallEntire({HomeUrl}, ReachMaxPages, ReachMaxDepths)

ReachAnchor == Anchor(ReachHrefs(cur.url))

NextReach ==
    \/ FirstReach
    \/ PopSkip
    \/ PopAccept
    \/ FetchOk
    \/ ReachAnchor
    \/ AnchorsDone
    \/ FetchError
    \/ DiscoveryReturn

SpecReach == Init /\ [][NextReach]_vars

(***************************************************************************)
(* SpecFiles: up to MaxOps exports on an instance of either class whose    *)
(* scraped_data holds up to MaxRecords records, in a directory where any   *)
(* of the target files may be left from an earlier run.                    *)
(***************************************************************************)
\* the n first links of a page
LinkEntriesOfPage(n) ==
    [ k \in 1..n |-> [url |-> HomeUrl \o [j \in 1..k |-> "l"], anchor_text |-> "a"] ]

\* pages that differ in their FAQ entries and links
CsvPages ==
    [ title        : {"T"},
      main_content : {"M"},
      faq_content  : { FaqEntries(n) : n \in 0..MaxFaq },
      product_info : { << >> },
      links        : { LinkEntriesOfPage(n) : n \in 0..MaxPageLinks } ]

\* the records scraped_data may hold, by class
FileRecords(class) ==
    IF class = "complete"
    THEN { PageRecord(url) : url \in SeedUrls }
    ELSE { LLMRecord(HomeUrl, page) : page \in CsvPages }

\* the page an earlier run scraped
OldUrl == <<"https:", "//", "a.com", "/", "old">>

\* what an earlier run that scraped OldUrl left in the target file of an
\* export
OldFile(kind, class) ==
    LET old == IF class = "complete"
               THEN << PageRecord(OldUrl) >>
               ELSE << LLMRecord(OldUrl, SitePage(HomeUrl)) >>
    IN CASE kind = "json"  -> Written(JsonDump(old))
         [] kind = "csv"   -> Written(CsvLines(old))
         [] kind = "jsonl" -> Written(TrainingData(old))
         [] kind = "txt"   -> Written([ k \in 1..Len(old) |-> TextBlock(old[k]) ])

\* the target files of the exports of a class
KindsOf(class) == IF class = "complete" THEN {"json", "txt"} ELSE {"json", "csv", "jsonl"}

InitFiles ==
    /\ cls \in {"complete", "llm"}
    /\ InitIdle
    /\ scraped_data \in SeqsUpTo(FileRecords(cls), MaxRecords)
    /\ files \in { [k \in FileKinds |-> IF k \in S THEN OldFile(k, cls) ELSE NoFile] :
                      S \in SUBSET KindsOf(cls) }

NextFiles ==
    \/ NextSaveToJson
    \/ NextCreateTextOnlyFile
    \/ NextGetSummaryStats
    \/ NextSaveToCsv
    \/ NextCreateLlmTrainingFormat

SpecFiles == InitFiles /\ [][NextFiles]_vars

TypeOK ==
    /\ pc \in {"idle", "while", "fetch", "links", "returned", "scrape", "scrape_sleep",
              "scraped", "l_while", "l_fetch", "l_links", "l_returned", "l_scrape",
              "l_sleep", "l_scraped"}
    /\ op \in {"none", "entire", "multiple", "discover_urls", "l_multiple"}
    /\ cls \in {"complete", "llm"}
    /\ \A k \in FileKinds : files[k].written \/ files[k].lines = << >>
    /\ nops \in 0..MaxOps
    /\ last_net \in {"none", "request", "sleep"}
    /\ failed \subseteq visited
    /\ Len(scrape_log) = Len(attempts)

(***************************************************************************)
(* Properties.                                                             *)
(***************************************************************************)
\* discover_all_pages is running or has just returned its list
InDiscovery == pc \in {"while", "fetch", "links", "returned"}

\* the entries of the frontier, as a set
Frontier == { to_visit[k] : k \in 1..Len(to_visit) }

\* the URLs discovered so far, in discovery order
DiscoveryOrder == [k \in 1..Len(disc_order) |-> disc_order[k].url]

\* the entry the frontier starts with
SeedEntry == [url |-> start_url, depth |-> 0]

\* the text of a URL before its first '#'
Unfragmented(url) == SubSeq(url, 1, FirstIn(url, {"#"}) - 1)

\* C1: every URL of the discovered set, and of the returned list, has the
\* host of base_url; no URL of another host and no URL without a host is
\* ever discovered.
C1_DiscoveredOnBaseHost ==
    InDiscovery =>
        /\ \A u \in discovered_urls : Netloc(u) # << >> /\ Netloc(u) = Netloc(base_url)
        /\ pc = "returned" =>
               \A k \in 1..Len(urls) : Netloc(urls[k]) = Netloc(base_url)

\* C2: for max_pages >= 0, the discovered set never holds more than
\* max_pages URLs while discover_all_pages runs, and neither does the list
\* it returns.
C2_AtMostMaxPages ==
    (InDiscovery /\ max_pages >= 0) =>
        /\ Cardinality(discovered_urls) <= max_pages
        /\ pc = "returned" => Len(urls) <= max_pages

\* C2 witness: the cap is what stopped the loop: max_pages URLs are
\* discovered and the frontier still holds entries.
C2_Witness ==
    /\ pc = "returned"
    /\ max_pages >= 2
    /\ Len(urls) = max_pages
    /\ to_visit # << >>

\* C3 as stated: every entry ever in the frontier has depth <= max_depth and
\* every discovered URL was popped with depth <= max_depth, for every
\* max_depth, negative ones included.
C3_DepthWithinMaxDepth ==
    InDiscovery =>
        /\ \A e \in BagToSet(created) : e.depth <= max_depth
        /\ \A e \in Frontier : e.depth <= max_depth
        /\ \A k \in 1..Len(disc_order) : disc_order[k].depth <= max_depth

\* C3 amended: every entry ever in the frontier other than the seed entry
\* (start_url, 0) has depth <= max_depth, and so has the seed entry when
\* max_depth >= 0; every discovered URL was popped with depth <= max_depth.
C3_DepthWithinMaxDepthButSeed ==
    InDiscovery =>
        /\ \A e \in BagToSet(created) :
               e.depth <= max_depth \/ (max_depth < 0 /\ e = SeedEntry)
        /\ \A e \in Frontier :
               e.depth <= max_depth \/ (max_depth < 0 /\ e = SeedEntry)
        /\ \A k \in 1..Len(disc_order) : disc_order[k].depth <= max_depth

\* C3 witness: an entry of depth max_depth >= 1 was created and its URL
\* discovered at that depth.
C3_Witness ==
    /\ InDiscovery
    /\ max_depth >= 1
    /\ \E e \in BagToSet(created) : e.depth = max_depth
    /\ \E k \in 1..Len(disc_order) : disc_order[k].depth = max_depth

\* C4: the visited set is fragment-insensitive: no visited or discovered URL
\* carries a fragment, frontier entries that differ only after '#' share one
\* visited entry and one discovered URL, and at most one discovery request
\* is made for them.
C4_FragmentInsensitive ==
    InDiscovery =>
        /\ \A v \in visited \cup discovered_urls : "#" \notin { v[k] : k \in 1..Len(v) }
        /\ \A e \in BagToSet(created) :
             /\ Cardinality({ v \in visited : Unfragmented(v) = Unfragmented(e.url) }) <= 1
             /\ Cardinality({ v \in discovered_urls :
                                Unfragmented(v) = Unfragmented(e.url) }) <= 1
             /\ Cardinality({ k \in 1..Len(fetch_log) :
                                Unfragmented(fetch_log[k]) = Unfragmented(e.url) }) <= 1
             /\ (\E k \in 1..Len(disc_order) : disc_order[k].url = Unfragmented(e.url))
                    => Unfragmented(e.url) \in visited \cap discovered_urls

\* C4 witness: two entries that differ only in the fragment were created
\* and both popped, and their page was requested.
C4_Witness ==
    /\ pc = "while"
    /\ to_visit = << >>
    /\ \E e1, e2 \in BagToSet(created) :
          /\ e1.url # e2.url
          /\ Unfragmented(e1.url) = Unfragmented(e2.url)
          /\ Unfragmented(e1.url) \in visited
          /\ \E k \in 1..Len(fetch_log) : fetch_log[k] = Unfragmented(e1.url)

\* C5: no discovered URL ends with an excluded extension or contains an
\* excluded path, whatever the start URL and the links found, links with a
\* fragment after the extension included.
C5_NoExcludedDiscovered ==
    InDiscovery =>
        \A u \in discovered_urls :
            ~EndsWithExcludedExtension(u) /\ ~ContainsExcludedPath(u)

\* C6 as stated: over the whole crawl no two frontier entries are created
\* with the same fragment-stripped URL.
C6_EnqueuedAtMostOnce ==
    InDiscovery =>
        \A e1, e2 \in BagToSet(created) :
            /\ CopiesIn(e1, created) = 1
            /\ Unfragmented(e1.url) = Unfragmented(e2.url) => e1 = e2

\* C6 amended: a fragment-stripped URL is taken from the frontier into the
\* visited and discovered sets at most once over the whole crawl; entries
\* with the same fragment-stripped URL may be created several times, and
\* every one but the first popped is dropped.
C6_DiscoveredAtMostOnce ==
    InDiscovery =>
        /\ \A j, k \in 1..Len(disc_order) :
               Unfragmented(disc_order[j].url) = Unfragmented(disc_order[k].url) => j = k
        /\ { disc_order[k].url : k \in 1..Len(disc_order) } = discovered_urls
        /\ BagCardinality(created) >= Len(disc_order) + Len(to_visit)

\* C6 witness: two entries with the same fragment-stripped URL were created
\* and both popped.
C6_Witness ==
    /\ pc = "while"
    /\ to_visit = << >>
    /\ \E e \in BagToSet(created) :
          /\ \/ CopiesIn(e, created) >= 2
             \/ \E e2 \in BagToSet(created) :
                   e2 # e /\ Unfragmented(e2.url) = Unfragmented(e.url)
          /\ Unfragmented(e.url) \in discovered_urls

\* C7 as stated: when discover_all_pages returns, the frontier is empty or
\* the discovered count equals max_pages, for every max_pages.
C7_ReturnsEmptyOrExactlyFull ==
    pc = "returned" =>
        to_visit = << >> \/ Cardinality(discovered_urls) = max_pages

\* C7 amended: discover_all_pages terminates for every link graph, every
\* max_pages and max_depth and every pattern of request failures; a failed
\* request leads back to the loop; when it returns, the frontier is empty or
\* the discovered count is at least max_pages, and equal to max_pages when
\* max_pages >= 0.
C7_Terminates ==
    /\ (pc \in {"while", "fetch", "links"}) ~> (pc = "returned")
    /\ [][pc = "fetch" => pc' \in {"links", "while"}]_vars
    /\ [](pc = "returned" =>
            \/ to_visit = << >>
            \/ /\ Cardinality(discovered_urls) >= max_pages
               /\ max_pages >= 0 => Cardinality(discovered_urls) = max_pages)

\* C7 witness: discovery returned because of the cap, after a page that
\* links to itself or back to a visited page was fetched and another
\* request failed.
C7_Witness ==
    /\ pc = "returned"
    /\ to_visit # << >>
    /\ Len(urls) = max_pages
    /\ \E e \in Frontier : Unfragmented(e.url) \in visited
    /\ Len(fetch_log) >= 2

\* the URLs of urls[1..Len(outcomes)] whose scrape_page returned a record
RECURSIVE Succeeded(_, _)
Succeeded(worklist, outcomes) ==
    IF outcomes = << >> THEN << >>
    ELSE LET n == Len(outcomes)
             before == Succeeded(worklist, SubSeq(outcomes, 1, n - 1))
         IN IF outcomes[n] THEN Append(before, worklist[n]) ELSE before

\* the records the running operation has appended to scraped_data
AppendedByOp == SubSeq(scraped_data, op_base + 1, Len(scraped_data))

InScrapeLoop == pc \in {"scrape", "scrape_sleep", "scraped"}

\* C8: in scrape_multiple_urls and in phase 2 of scrape_entire_website a
\* failed scrape_page adds no record and does not stop the loop: the loop
\* goes through the whole worklist, and the records appended are those of
\* the URLs that were fetched successfully, in worklist order.
C8_FailedFetchAddsNoRecord ==
    InScrapeLoop =>
        /\ op_base <= Len(scraped_data)
        /\ [k \in 1..Len(AppendedByOp) |-> AppendedByOp[k].url] = Succeeded(urls, attempts)
        /\ pc = "scrape" => Len(attempts) = i - 1 /\ i <= Len(urls)
        /\ pc = "scrape_sleep" => Len(attempts) = i /\ i < Len(urls)
        /\ pc = "scraped" => Len(attempts) = Len(urls)

\* C8 witness: a loop finished whose first URL failed and whose second URL
\* gave the only record.
C8_Witness ==
    /\ pc = "scraped"
    /\ attempts = << FALSE, TRUE >>
    /\ AppendedByOp = << PageRecord(urls[2]) >>

\* C8 witness of the scenario: a one-URL seed list whose fetch failed leaves
\* the record list empty.
C8_WitnessOneSeed ==
    /\ pc = "scraped" /\ op = "multiple"
    /\ Len(urls) = 1 /\ attempts = << FALSE >>
    /\ scraped_data = << >>

\* C9 as stated: after any sequence of completed operations no two records
\* of scraped_data have the same url.
C9_UrlsUnique ==
    pc = "idle" =>
        \A j, k \in 1..Len(scraped_data) :
            scraped_data[j].url = scraped_data[k].url => j = k

\* C9 amended: the records appended by one run of scrape_entire_website
\* have pairwise different urls (the records of different operations, and
\* those of a scrape_multiple_urls whose seed list repeats a URL, may share
\* a url).
C9_UrlsUniquePerCrawl ==
    (op = "entire" /\ InScrapeLoop) =>
        \A j, k \in 1..Len(AppendedByOp) :
            AppendedByOp[j].url = AppendedByOp[k].url => j = k

\* C9 witness: a crawl that follows an earlier operation has appended two
\* records.
C9_Witness ==
    /\ op = "entire" /\ pc = "scraped"
    /\ op_base >= 1
    /\ Len(AppendedByOp) >= 2

\* C10: the list discover_all_pages returns holds the discovered URLs in
\* the order they were discovered (and phase 2 scrapes them in that order).
C10_ReturnedInDiscoveryOrder ==
    pc = "returned" => urls = DiscoveryOrder

\* C11: in scrape_entire_website, whenever the next HTTP request is about to
\* be issued (a discovery fetch or a scrape fetch), the last network step of
\* the run was not a request: a sleep lies between any two consecutive
\* requests, whether they succeeded or failed.
C11_SleepBetweenRequests ==
    (op = "entire" /\ pc \in {"fetch", "scrape"}) => last_net # "request"

\* the second scrape fetch of a run is about to be issued after a failed
\* first one, and discovery made at least two fetches, one of which failed
C11_Witness ==
    /\ op = "entire" /\ pc = "scrape" /\ i = 2
    /\ attempts = << FALSE >>
    /\ Len(fetch_log) >= 2
    /\ last_net = "sleep"

\* an href that is empty, fragment-only, or a javascript:, mailto: or tel:
\* target, the scheme compared without regard to letter case
IsSkipTarget(href) ==
    href = << >> \/ \E p \in SkippedPrefixes : StartsWith(Lower(href), p)

\* C12: in discover_all_pages no anchor whose href is empty, fragment-only
\* or a javascript:, mailto: or tel: target in any letter case has its link
\* appended to the frontier, and no such target is in the discovered set.
C12_SkipTargetsNeverFollowed ==
    InDiscovery =>
        /\ \A href \in followed : ~IsSkipTarget(href)
        /\ \A url \in discovered_urls : ~IsSkipTarget(url)

\* the conditions under which a popped entry is to be dropped
Dropped(e) ==
    \/ CleanUrl(e.url) \in visited
    \/ e.depth > max_depth
    \/ Cardinality(discovered_urls) >= max_pages

\* number of entries popped and dropped so far in this discovery
NumDropped == BagCardinality(created) - Len(to_visit) - Len(disc_order)

\* C13: in discover_all_pages, popping an entry whose fragment-stripped URL
\* is already visited, or whose depth exceeds max_depth, or while the
\* discovered count has reached max_pages, issues no fetch and leaves the
\* visited and discovered sets as they are; and no two discovery fetches
\* are for the same fragment-stripped URL.
C13_DroppedEntryNoEffect ==
    /\ [][ (pc = "while" /\ Len(to_visit') < Len(to_visit) /\ Dropped(Head(to_visit)))
            => /\ visited' = visited
               /\ discovered_urls' = discovered_urls
               /\ fetch_log' = fetch_log
               /\ pc' = "while" ]_vars
    /\ [](InDiscovery =>
            \A j, k \in 1..Len(fetch_log) :
                Unfragmented(fetch_log[j]) = Unfragmented(fetch_log[k]) => j = k)

\* two entries were dropped after two pages were fetched, and two of the
\* entries created differ only in their fragment
C13_Witness ==
    /\ InDiscovery
    /\ NumDropped >= 2
    /\ Len(fetch_log) >= 2
    /\ \E e1, e2 \in BagToSet(created) :
          e1.url # e2.url /\ Unfragmented(e1.url) = Unfragmented(e2.url)

\* C14: in scrape_entire_website no content fetch is issued before
\* discover_all_pages has returned; the list phase 2 works on is the list
\* discovery returned, which holds every discovered URL once; and the
\* content fetches issued are for the URLs of that list, one each and in
\* order, all of them once the loop has ended, whether or not discovery
\* requested the same URL before.
C14_OneContentFetchPerDiscovered ==
    /\ [](op = "entire" =>
            /\ pc \in {"while", "fetch", "links", "returned"} => scrape_log = << >>
            /\ pc = "returned" =>
                  /\ { urls[k] : k \in 1..Len(urls) } = discovered_urls
                  /\ Len(urls) = Cardinality(discovered_urls)
            /\ pc \in {"scrape", "scrape_sleep", "scraped"} =>
                  /\ Len(scrape_log) <= Len(urls)
                  /\ scrape_log = SubSeq(urls, 1, Len(scrape_log))
                  /\ pc = "scrape" => Len(scrape_log) = i - 1
                  /\ pc = "scraped" => scrape_log = urls)
    /\ [][ (op = "entire" /\ pc \in {"returned", "scrape", "scrape_sleep"}
             /\ pc' \in {"scrape", "scrape_sleep", "scraped"}) => urls' = urls ]_vars

\* phase 2 has ended: two URLs were discovered, discovery requested one of
\* them, and each of the two got its content fetch
C14_Witness ==
    /\ op = "entire" /\ pc = "scraped"
    /\ Len(urls) = 2
    /\ scrape_log = urls
    /\ \E k \in 1..Len(urls), j \in 1..Len(fetch_log) : urls[k] = fetch_log[j]

\* the entries of a list, as a bag
SeqToBag(s) ==
    [ e \in { s[k] : k \in 1..Len(s) } |-> Cardinality({ k \in 1..Len(s) : s[k] = e }) ]

\* C15 as stated: when discover_all_pages returns, every entry created has
\* been popped and the frontier is empty.
C15_AllConsumedAtReturn ==
    pc = "returned" => (to_visit = << >> /\ popped = created)

\* C15, amended: every entry created is popped at most once, the frontier
\* is FIFO (an entry is appended at the end, the entry popped is the oldest
\* one left), every entry created has been popped or is still in the
\* frontier, and entries are left in the frontier at return only when the
\* discovered count has reached max_pages.
C15_ConsumedAtMostOnceFifo ==
    /\ [](InDiscovery => created = popped (+) SeqToBag(to_visit))
    /\ [](pc = "returned" /\ to_visit # << >>
            => Cardinality(discovered_urls) >= max_pages)
    /\ [][ (pc \in {"while", "links"} /\ to_visit' # to_visit) =>
             \/ /\ to_visit # << >>
                /\ to_visit' = Tail(to_visit)
                /\ popped' = popped (+) SetToBag({Head(to_visit)})
                /\ created' = created
             \/ /\ \E e \in BagToSet(created') :
                      /\ to_visit' = Append(to_visit, e)
                      /\ created' = created (+) SetToBag({e})
                /\ popped' = popped ]_vars

\* discover_all_pages has returned with entries left in the frontier, after
\* popping at least two entries while two or more were waiting
C15_Witness ==
    /\ pc = "returned"
    /\ to_visit # << >>
    /\ BagCardinality(popped) >= 2
    /\ BagCardinality(created) >= 4

\* C16: in discover_all_pages the step on which the fetch of a page fails
\* appends nothing to the frontier, leaves the visited and discovered sets
\* as they are and goes back to the loop test with the frontier as it was;
\* the anchors of a page whose fetch failed are never looked at.
C16_FailedFetchContributesNothing ==
    /\ [][ (pc = "fetch" /\ failed' # failed) =>
             /\ to_visit' = to_visit
             /\ created' = created
             /\ visited' = visited
             /\ discovered_urls' = discovered_urls
             /\ pc' = "while" ]_vars
    /\ [](pc = "links" => cur.url \notin failed)

\* after the fetch of a page below the start page failed, discovery went on
\* with the frontier as it was: a later entry was popped and discovered
C16_Witness ==
    /\ InDiscovery
    /\ \E k \in 1..Len(disc_order) :
          /\ k < Len(disc_order)
          /\ disc_order[k].depth >= 1
          /\ disc_order[k].url \in failed

\* C17: in WebScraperForLLM.discover_urls, while the body of a response
\* with a status other than 2xx is being looked at, nothing is appended to
\* the frontier.
C17_Non2xxContributesNothing ==
    [][ (op = "discover_urls" /\ pc = "l_links" /\ cur.url \in failed)
            => to_visit' = to_visit ]_vars

\* C18: in WebScraperForLLM.discover_urls, no two URLs of the visited set,
\* no two elements of the returned list and no two fetches differ only in
\* the part after '#'.
C18_LLMVisitedFragmentInsensitive ==
    op = "discover_urls" =>
        /\ \A u1, u2 \in visited :
              Unfragmented(u1) = Unfragmented(u2) => u1 = u2
        /\ \A j, k \in 1..Len(urls) :
              Unfragmented(urls[j]) = Unfragmented(urls[k]) => j = k
        /\ \A j, k \in 1..Len(fetch_log) :
              Unfragmented(fetch_log[j]) = Unfragmented(fetch_log[k]) => j = k

\* s is a prefix of t
IsPrefix(s, t) == Len(s) <= Len(t) /\ SubSeq(t, 1, Len(s)) = s

\* C19: on every step of every operation of either class the old value of
\* scraped_data is a prefix of the new one: records are only appended, at
\* the end; and an export (a step from idle to idle: save_to_json,
\* save_to_csv, create_llm_training_format, create_text_only_file,
\* get_summary_stats) leaves scraped_data as it is.
C19_RecordsOnlyAppended ==
    /\ [][ IsPrefix(scraped_data, scraped_data') ]_vars
    /\ [][ (pc = "idle" /\ pc' = "idle") => scraped_data' = scraped_data ]_vars

\* two different records were appended and the instance was exported
C19_Witness ==
    /\ pc = "idle"
    /\ Len(scraped_data) >= 2
    /\ scraped_data[1] # scraped_data[2]
    /\ \E k \in FileKinds : files[k].written

\* the number of page summaries a record is to give: one if and only if
\* title and main_content are both non-empty
SummaryCount(item) == IF item.title # "" /\ item.main_content # "" THEN 1 ELSE 0

\* the number of examples a record is to give
ExampleCount(item) ==
    Len(item.faq_content) + SummaryCount(item)
    + Cardinality({ k \in 1..Len(item.product_info) : item.product_info[k].value # "" })

RECURSIVE ExamplesBefore(_, _)
\* the number of examples the records before the k-th are to give
ExamplesBefore(data, k) ==
    IF k <= 1 THEN 0 ELSE ExamplesBefore(data, k - 1) + ExampleCount(data[k - 1])

\* C20: the file create_llm_training_format has written holds, record by
\* record in record order, one 'faq' line per FAQ entry (its question and
\* answer, in order), then one 'page_summary' line if and only if title and
\* main_content are both non-empty, then one 'product_info' line per
\* product field with a value; the number of lines is the sum of these
\* counts, and every line carries the url of its record as source_url.
C20_TrainingExamples ==
    files["jsonl"].written =>
        LET lines == files["jsonl"].lines
            n     == Len(scraped_data)
        IN
        /\ Len(lines) = ExamplesBefore(scraped_data, n + 1)
        /\ \A k \in 1..n :
              LET item == scraped_data[k]
                  off  == ExamplesBefore(scraped_data, k)
                  nf   == Len(item.faq_content)
              IN \A j \in 1..ExampleCount(item) :
                    /\ off + j <= Len(lines)
                    /\ lines[off + j].source_url = item.url
                    /\ lines[off + j].type =
                          IF j <= nf THEN "faq"
                          ELSE IF j <= nf + SummaryCount(item) THEN "page_summary"
                          ELSE "product_info"
                    /\ j <= nf =>
                          /\ lines[off + j].input = item.faq_content[j].question
                          /\ lines[off + j].output = item.faq_content[j].answer

\* the file was written from two records of different pages: the first
\* gives FAQ, summary and product lines, the second has a title but no main
\* content, no FAQ and no product field and gives none
C20_Witness ==
    /\ files["jsonl"].written
    /\ Len(scraped_data) = 2
    /\ scraped_data[1].url # scraped_data[2].url
    /\ Len(scraped_data[1].faq_content) = 2
    /\ ExampleCount(scraped_data[1]) = 5
    /\ scraped_data[2].title # ""
    /\ ExampleCount(scraped_data[2]) = 0
    /\ Len(files["jsonl"].lines) = 5

\* the data rows of a CSV file: its lines after the header
DataRows(f) == IF f.written /\ f.lines # << >> THEN Tail(f.lines) ELSE << >>

\* C21: after a save_to_csv call the CSV file holds one data row per record
\* of scraped_data, in record order, whatever the number of records, zero
\* included; the faq_count of a row is the number of FAQ entries of its
\* record and its links_count the number of links.
C21_CsvRowPerRecord ==
    [][ NextSaveToCsv =>
          LET rows == DataRows(files'["csv"]) IN
          /\ Len(rows) = Len(scraped_data)
          /\ \A k \in 1..Len(rows) :
                /\ rows[k].url = scraped_data[k].url
                /\ rows[k].faq_count = Len(scraped_data[k].faq_content)
                /\ rows[k].links_count = Len(scraped_data[k].links) ]_vars

\* C22: after an export call the target file is written and holds what the
\* export makes of the current scraped_data, whatever it held before and
\* whatever scraped_data holds.
C22_ExportsOverwrite ==
    /\ [][ NextSaveToJson => files'["json"] = Written(JsonDump(scraped_data)) ]_vars
    /\ [][ NextSaveToCsv => files'["csv"] = Written(CsvLines(scraped_data)) ]_vars
    /\ [][ NextCreateLlmTrainingFormat
            => files'["jsonl"] = Written(TrainingData(scraped_data)) ]_vars
    /\ [][ NextCreateTextOnlyFile
            => files'["txt"] = Written([ k \in 1..Len(scraped_data) |->
                                           TextBlock(scraped_data[k]) ]) ]_vars

\* the elements of a sequence
Range(seq) == { seq[k] : k \in 1..Len(seq) }

\* C23: two scrape_page calls that received the same document for the same
\* URL returned the same record, every field equal.
C23_ScrapePageDeterministic ==
    \A a, b \in 1..Len(extracted) :
        extracted[a].url = extracted[b].url /\ extracted[a].html = extracted[b].html
        => extracted[a].data = extracted[b].data

\* C24: in a CompleteTextWebScraper.scrape_page call no extractor changes
\* the parsed document, and each field of the record is what its extractor
\* returns for the document as it was parsed.
C24_FieldsIndependent ==
    cls = "complete" =>
      \A k \in 1..Len(extracted) :
        LET html == extracted[k].html
            data == extracted[k].data
        IN /\ BodyTextSoup(html) = html
           /\ VisibleTextSoup(html) = html
           /\ data.title = ExtractTitle(html)
           /\ data.complete_body_text = ExtractCompleteBodyText(html)
           /\ data.all_paragraph_text = ExtractAllParagraphs(html)
           /\ data.complete_visible_text = ExtractAllVisibleText(html)
           /\ data.structured_content = ExtractStructuredContent(html)
           /\ data.page_statistics = CalculatePageStatistics(html)

\* the elements of a document that no extractor takes out of it
Remaining(html) == VisibleTextSoup(BodyTextSoup(html))

\* C25: of the elements that stay in the document, a paragraph is in
\* all_paragraph_text exactly when its stripped text has more than 10
\* characters and a section is in structured_content exactly when its text
\* has at least 20 characters.
C25_LengthFilters ==
    cls = "complete" =>
      \A k \in 1..Len(extracted) :
        LET data == extracted[k].data
            rest == Remaining(extracted[k].html)
        IN \A j \in 1..Len(rest) :
             LET text == Strip(rest[j].text) IN
             /\ rest[j].tag = "p"
                  => (text \in Range(data.all_paragraph_text) <=> Len(text) > 10)
             /\ rest[j].tag \in SectionTags
                  => (text \in Range(data.structured_content[rest[j].tag])
                        <=> Len(text) >= 20)

\* the URLs discovery has requested so far
Fetched == { fetch_log[k] : k \in 1..Len(fetch_log) }

\* the positions in discovery order of the URLs popped below max_depth
BelowMaxDepth == { k \in 1..Len(disc_order) : disc_order[k].depth < max_depth }

\* C27: during and at the end of discover_all_pages the number of discovery
\* requests is at most max(0, max_pages - 1) and at most the number of
\* discovered URLs of depth below max_depth; every requested URL was
\* discovered below max_depth; the URL that was discovered as number
\* max_pages is not requested; and with max_depth = 0 and max_pages >= 1
\* the call returns the fragment-stripped start URL alone after no request.
C27_FetchesBounded ==
    InDiscovery =>
        /\ Len(fetch_log) <= (IF max_pages >= 1 THEN max_pages - 1 ELSE 0)
        /\ Len(fetch_log) <= Cardinality(BelowMaxDepth)
        /\ \A u \in Fetched : \E k \in BelowMaxDepth : disc_order[k].url = u
        /\ \A k \in 1..Len(disc_order) :
              (k = max_pages \/ disc_order[k].depth = max_depth)
              => disc_order[k].url \notin Fetched /\ cur # disc_order[k]
        /\ (pc = "returned" /\ max_depth = 0 /\ max_pages >= 1)
              => /\ discovered_urls = {Unfragmented(start_url)}
                 /\ Range(urls) = {Unfragmented(start_url)} /\ Len(urls) = 1
                 /\ fetch_log = << >>

\* discovery has returned after max_pages - 1 requests; the last URL it
\* discovered lies below max_depth and was not requested because it filled
\* the cap
C27_Witness ==
    /\ pc = "returned"
    /\ max_pages >= 2
    /\ Len(fetch_log) = max_pages - 1
    /\ Len(disc_order) = max_pages
    /\ disc_order[max_pages].depth < max_depth

RECURSIVE WithinHops(_)
\* the clean URLs at most k links away from the start URL
WithinHops(k) ==
    IF k < 0 THEN { }
    ELSE IF k = 0 THEN { CleanUrl(start_url) }
    ELSE LET near == WithinHops(k - 1)
         IN near \cup { e.to : e \in { x \in linked : x.from \in near } }

\* C26: when discover_all_pages returns with fewer than max_pages
\* discovered URLs and no discovery request has failed, the discovered set
\* is the set of clean URLs at most max_depth links away from the start URL
\* over the links that passed the filters, and each URL was discovered at
\* the depth that is its least number of links from the start URL.
C26_DiscoveredIsReachable ==
    (pc = "returned" /\ Cardinality(discovered_urls) < max_pages /\ failed = {})
    => /\ discovered_urls = WithinHops(max_depth)
       /\ \A k \in 1..Len(disc_order) :
             /\ disc_order[k].url \in WithinHops(disc_order[k].depth)
             /\ disc_order[k].depth = 0
                  \/ disc_order[k].url \notin WithinHops(disc_order[k].depth - 1)

\* the crawl has returned under the cap with every request answered; a page
\* one link from the start URL is also linked from another page one link
\* away, and a page two links away was discovered
C26_Witness ==
    /\ pc = "returned"
    /\ Cardinality(discovered_urls) < max_pages
    /\ failed = {}
    /\ \E e \in linked :
          /\ e.from # CleanUrl(start_url)
          /\ e.to \in WithinHops(1)
          /\ e.to # CleanUrl(start_url)
    /\ \E k \in 1..Len(disc_order) : disc_order[k].depth = 2

====
